---- MODULE Spec2Model ----
(***************************************************************************)
(* The error cache of WorkflowWebTools (globalerrors.py).                  *)
(*                                                                         *)
(* Eight specifications share this module:                                 *)
(*   SpecTable  one loaded ErrorInfo handle and get_step_table on it, as a *)
(*              table and as a mapping, over every small table;            *)
(*   SpecPivot  one loaded ErrorInfo handle and the pivot operations;      *)
(*   SpecGroup  group_errors on the pivots of get_errors;                  *)
(*   SpecLoad   ErrorInfo.setup on a source, and return_workflows;         *)
(*   Spec       the threads of the web server calling check_session and    *)
(*              reading, with the locks, the refresh and the clock;        *)
(*   SpecLock   the same with the db_lock of execute held over a step;     *)
(*   SpecLive   the same as Spec under fair scheduling of the threads;     *)
(*   SpecMerge  the merge of get_step_table, cell by cell, on any sparse   *)
(*              list and any dimension lists.                              *)
(***************************************************************************)
EXTENDS Integers, Sequences, FiniteSets, TLC

VARIABLES
    \* ---- one handle's data (SpecTable) ----
    workflows,      \* the rows of the sqlite table "workflows"
    info,           \* ErrorInfo.info: the dimension lists
    step_tables,    \* ErrorInfo._step_tables: None or the sparse-list cache
    ret,            \* the last call made on the handle and what it returned
    \* ---- the server's threads and handles (Spec) ----
    now,            \* time.time()
    calls,          \* the requests the server has taken so far
    GLOBAL_INFO,    \* the process-wide handle, 0 for None
    GLOBAL_LOCK,    \* TRUE while held
    session,        \* per session: its 'lock' and 'info' entries
    handles,        \* every ErrorInfo object constructed, in order
    th,             \* per thread: the call it is in and its position
    made            \* per scope: the ErrorInfo() and Lock() calls made

tvars == <<workflows, info, step_tables, ret>>
cvars == <<now, calls, GLOBAL_INFO, GLOBAL_LOCK, session, handles, th, made>>
vars == <<tvars, cvars>>

None == "None"

(***************************************************************************)
(* Values.  A string is the sequence of its character codes.  A value of   *)
(* a table column has sqlite's storage class: an integer or a text.  The   *)
(* sqlite3 module hands an integer back as a Python int and a text as a    *)
(* unicode string, so the same representation serves on the Python side.   *)
(***************************************************************************)
Text(s) == [cls |-> "text", n |-> 0, s |-> s]
Integer(n) == [cls |-> "integer", n |-> n, s |-> <<>>]

Min(a, b) == IF a < b THEN a ELSE b

Elements(list) == {list[i] : i \in 1..Len(list)}

\* comparison of two strings by character code, a proper prefix first
StrLess(a, b) ==
    \E i \in 1..(Min(Len(a), Len(b)) + 1) :
        /\ \A j \in 1..(i - 1) : a[j] = b[j]
        /\ \/ i > Len(a) /\ i <= Len(b)
           \/ i <= Len(a) /\ i <= Len(b) /\ a[i] < b[i]

IsDigits(s) == Len(s) > 0 /\ \A i \in 1..Len(s) : s[i] \in 48..57

RECURSIVE DecimalValue(_)
DecimalValue(s) ==
    IF s = <<>> THEN 0
    ELSE 10 * DecimalValue(SubSeq(s, 1, Len(s) - 1)) + (s[Len(s)] - 48)

(***************************************************************************)
(* The inputs: step names, site names, raw error codes, readiness values.  *)
(***************************************************************************)
StepA == <<47, 97, 47, 120>>        \* "/a/x"
StepB == <<47, 98, 47, 120>>        \* "/b/x"
Site1 == <<84, 49>>                 \* "T1"
Site2 == <<84, 50>>                 \* "T2"
Code99 == <<57, 57>>                \* "99"
Code8020 == <<56, 48, 50, 48>>      \* "8020"
CodeAbc == <<97, 98, 99>>           \* "abc"

StepNames == {StepA, StepB}
SiteNames == {Site1, Site2}
RawCodes == {Code99, Code8020, CodeAbc}
Readiness == {"green", "red"}

Counts == {1, 2}                    \* the numbers of errors of a row

MaxRecords == 2     \* rows in the table

(***************************************************************************)
(* The table.  errorutils.create_table declares the columns and            *)
(* errorutils.add_to_database fills them, one row per (step, error code,   *)
(* site) of the source with the readiness of the row's site.  The error    *)
(* code column is numeric: a code that is a decimal number is stored as an *)
(* integer, any other code as the text it is.                              *)
(***************************************************************************)
StoredCode(raw) ==
    IF IsDigits(raw) THEN Integer(DecimalValue(raw)) ELSE Text(raw)

TableColumns ==
    {"stepname", "sitereadiness", "numbererrors", "sitename", "errorcode"}

Row(step, site, raw, count, ready) ==
    [stepname |-> Text(step), sitename |-> Text(site), errorcode |-> StoredCode(raw),
     numbererrors |-> count, sitereadiness |-> ready]

KeySets == {K \in SUBSET (StepNames \X SiteNames \X RawCodes) : Cardinality(K) <= MaxRecords}

\* a table add_to_database can leave: no (step, site, code) twice, one
\* readiness per site
Table(K, count, ready) == {Row(k[1], k[2], k[3], count[k], ready[k[2]]) : k \in K}

(***************************************************************************)
(* sqlite's order of two values (ORDER BY ... ASC): an integer before a    *)
(* text, integers by value, texts by their bytes.                          *)
(***************************************************************************)
SqlLess(v, w) ==
    \/ v.cls = "integer" /\ w.cls = "text"
    \/ v.cls = "integer" /\ w.cls = "integer" /\ v.n < w.n
    \/ v.cls = "text" /\ w.cls = "text" /\ StrLess(v.s, w.s)

\* Python 2's order of two values: a number before a string, numbers by
\* value, strings by their characters
PyLess(a, b) ==
    \/ a.cls = "integer" /\ b.cls = "text"
    \/ a.cls = "integer" /\ b.cls = "integer" /\ a.n < b.n
    \/ a.cls = "text" /\ b.cls = "text" /\ StrLess(a.s, b.s)

\* a key that leaves every element as it is
keep_element(element) == element

\* int(element), or the element unchanged when int() raises ValueError
safe_int(element) ==
    IF element.cls = "integer" THEN element
    ELSE IF IsDigits(element.s) THEN Integer(DecimalValue(element.s))
    ELSE element

\* SELECT DISTINCT column FROM workflows
get_all(table, column) == {row[column] : row \in table}

\* list.sort() of distinct values
RECURSIVE SortValues(_)
SortValues(S) ==
    IF S = {} THEN <<>>
    ELSE LET m == CHOOSE x \in S : \A y \in S : ~PyLess(y, x)
         IN  <<m>> \o SortValues(S \ {m})

\* list.sort(key=safe_int) of distinct values
RECURSIVE SortBySafeInt(_)
SortBySafeInt(S) ==
    IF S = {} THEN <<>>
    ELSE LET m == CHOOSE x \in S : \A y \in S : ~PyLess(safe_int(y), safe_int(x))
         IN  <<m>> \o SortBySafeInt(S \ {m})

set_all_lists(table) ==
    [allsteps  |-> SortValues(get_all(table, "stepname")),
     allerrors |-> SortBySafeInt(get_all(table, "errorcode")),
     allsites  |-> SortValues(get_all(table, "sitename"))]

get_allmap(lists) ==
    [errorcode |-> lists.allerrors, stepname |-> lists.allsteps, sitename |-> lists.allsites]

(***************************************************************************)
(* ErrorInfo._get_step_tables and ErrorInfo.get_step_table: the cache of   *)
(* sparse lists.  The cache is a defaultdict of defaultdicts of lists; it  *)
(* is modelled as a function on the (step, key) pairs it holds.            *)
(***************************************************************************)

\* the rows before `row` under ORDER BY errorcode ASC, sitename ASC (rows
\* that tie are rows of different steps, which no sparse list mixes)
OrderedBefore(r, q) ==
    \/ SqlLess(r.errorcode, q.errorcode)
    \/ r.errorcode = q.errorcode /\ SqlLess(r.sitename, q.sitename)
    \/ r.errorcode = q.errorcode /\ r.sitename = q.sitename
         /\ SqlLess(r.stepname, q.stepname)

RECURSIVE OrderBy(_)
OrderBy(rows) ==
    IF rows = {} THEN <<>>
    ELSE LET m == CHOOSE r \in rows : \A q \in rows : ~OrderedBefore(q, r)
         IN  <<m>> \o OrderBy(rows \ {m})

Entry(row) == <<row.numbererrors, row.sitename, row.errorcode>>

RECURSIVE Entries(_)
Entries(rows) ==
    IF rows = <<>> THEN <<>> ELSE <<Entry(Head(rows))>> \o Entries(Tail(rows))

StepRows(rows, step) == SelectSeq(rows, LAMBDA r : r.stepname = step)
ReadyRows(rows, step, ready) ==
    SelectSeq(rows, LAMBDA r : r.stepname = step /\ r.sitereadiness = ready)

get_step_tables(table) ==
    LET rows == OrderBy(table)
        keys == {<<r.stepname, "all">> : r \in table}
                    \cup {<<r.stepname, r.sitereadiness>> : r \in table}
    IN  [k \in keys |->
            IF k[2] = "all" THEN Entries(StepRows(rows, k[1]))
            ELSE Entries(ReadyRows(rows, k[1], k[2]))]

\* self._step_tables[step][key]: a missing key reads as the empty list
Lookup(tables, step, key) ==
    IF <<step, key>> \in DOMAIN tables THEN tables[<<step, key>>] ELSE <<>>

RECURSIVE Extend(_, _, _)
Extend(tables, step, keys) ==
    IF keys = <<>> THEN <<>>
    ELSE Lookup(tables, step, Head(keys)) \o Extend(tables, step, Tail(keys))

\* keys = readymatch or ['all'] (no filter, None, is the empty tuple here)
MatchKeys(readymatch) ==
    IF readymatch = <<>> THEN <<"all">> ELSE readymatch

\* ErrorInfo.get_step_table: the sparse list of a step
sparse_step_table(tables, step, readymatch) ==
    Extend(tables, step, MatchKeys(readymatch))

\* ... and the cache after the lookups: a defaultdict keeps the keys it was asked for
Touched(tables, step, readymatch) ==
    LET keys == MatchKeys(readymatch)
        asked == {<<step, keys[i]>> : i \in 1..Len(keys)}
    IN  [k \in DOMAIN tables \cup asked |-> IF k \in DOMAIN tables THEN tables[k] ELSE <<>>]

(***************************************************************************)
(* get_step_table: the merge of the sparse list into the dense table.      *)
(* The loop is run cell by cell, row-major; `contents` is what is left of  *)
(* the sparse list and `cur` the entry popped last.                        *)
(***************************************************************************)
NoEntry == <<0, Text(<<>>), Text(<<>>)>>

Pop(contents) == IF contents # <<>> THEN Head(contents) ELSE NoEntry
Rest(contents) == IF contents # <<>> THEN Tail(contents) ELSE <<>>

\* a merge that looks at the site of the cursor only
CellMatchesSite(error, site, cur) == site = cur[2]

\* if error != errorcode or site != sitename: (the cell takes the entry otherwise)
CellMatches(error, site, cur) == ~(error # cur[3] \/ site # cur[2])

RECURSIVE MergeRow(_, _, _, _, _)
MergeRow(error, sites, j, cur, contents) ==
    IF j > Len(sites) THEN [row |-> <<>>, cur |-> cur, contents |-> contents]
    ELSE IF CellMatches(error, sites[j], cur)
         THEN LET more == MergeRow(error, sites, j + 1, Pop(contents), Rest(contents))
              IN  [more EXCEPT !.row = <<cur[1]>> \o @]
         ELSE LET more == MergeRow(error, sites, j + 1, cur, contents)
              IN  [more EXCEPT !.row = <<0>> \o @]

RECURSIVE MergeTable(_, _, _, _, _)
MergeTable(errors, sites, i, cur, contents) ==
    IF i > Len(errors) THEN <<>>
    ELSE LET r == MergeRow(errors[i], sites, 1, cur, contents)
         IN  <<r.row>> \o MergeTable(errors, sites, i + 1, r.cur, r.contents)

dense_step_table(allmap, contents) ==
    MergeTable(allmap.errorcode, allmap.sitename, 1, Pop(contents), Rest(contents))

(***************************************************************************)
(* The pivot operations.                                                   *)
(***************************************************************************)
PieVars == {"errorcode", "sitename", "stepname"}

\* the pievar arguments tried: the valid ones and one that names nothing
PieVarArgs == PieVars \cup {"bogus"}

pievarmap ==
    [errorcode |-> <<"stepname", "sitename">>,
     sitename  |-> <<"stepname", "errorcode">>,
     stepname  |-> <<"errorcode", "sitename">>]

get_row_col_names(pievar) ==
    pievarmap[IF pievar \in DOMAIN pievarmap THEN pievar ELSE "errorcode"]

EmptyMap == [x \in {} |-> 0]
Returned(value) == [raised |-> None, value |-> value]
Raised(error) == [raised |-> error, value |-> EmptyMap]

Get(f, k, default) == IF k \in DOMAIN f THEN f[k] ELSE default
Put(f, k, v) == [x \in DOMAIN f \cup {k} |-> IF x = k THEN v ELSE f[x]]

(***************************************************************************)
(* get_step_table(..., sparse=True): the sparse list as a mapping.  The    *)
(* defaultdict of defaultdicts is modelled as a function on the pairs      *)
(* (str(errorcode), sitename) that were assigned.                          *)
(***************************************************************************)
RECURSIVE DecimalDigits(_)
DecimalDigits(n) ==
    IF n < 10 THEN <<48 + n>> ELSE DecimalDigits(n \div 10) \o <<48 + (n % 10)>>

\* str(errorcode): the decimal digits of an int, the characters of a string
str(value) ==
    IF value.cls = "integer" THEN Text(DecimalDigits(value.n)) ELSE value

\* for numbererrors, sitename, errorcode in contents:
\*     output[str(errorcode)][sitename] = numbererrors
RECURSIVE sparse_output(_, _)
sparse_output(output, contents) ==
    IF contents = <<>> THEN output
    ELSE LET numbererrors == Head(contents)[1]
             sitename == Head(contents)[2]
             errorcode == Head(contents)[3]
         IN  sparse_output(Put(output, <<str(errorcode), sitename>>, numbererrors),
                           Tail(contents))

\* ORDER BY c1 ASC, c2 ASC, c3 ASC
OrderedBefore3(r, q, c1, c2, c3) ==
    \/ SqlLess(r[c1], q[c1])
    \/ r[c1] = q[c1] /\ SqlLess(r[c2], q[c2])
    \/ r[c1] = q[c1] /\ r[c2] = q[c2] /\ SqlLess(r[c3], q[c3])

RECURSIVE OrderBy3(_, _, _, _)
OrderBy3(rows, c1, c2, c3) ==
    IF rows = {} THEN <<>>
    ELSE LET m == CHOOSE r \in rows : \A q \in rows : ~OrderedBefore3(q, r, c1, c2, c3)
         IN  <<m>> \o OrderBy3(rows \ {m}, c1, c2, c3)

\* default_errors_format(): the entry a missing key reads as
DefaultEntry == [errors |-> EmptyMap, sub |-> EmptyMap, total |-> 0]

\* the same with the total assigned, not added to
AddErrorLast(output, row, col, pvar, numerrors) ==
    LET entry == Get(output, row, DefaultEntry)
        cols == Get(entry.errors, col, EmptyMap)
    IN  Put(output, row,
            [entry EXCEPT !.errors = Put(entry.errors, col, Put(cols, pvar, numerrors)),
                          !.total = numerrors])

\* output[row]['errors'][col][pvar] = numerrors; output[row]['total'] += numerrors
AddError(output, row, col, pvar, numerrors) ==
    LET entry == Get(output, row, DefaultEntry)
        cols == Get(entry.errors, col, EmptyMap)
    IN  Put(output, row,
            [entry EXCEPT !.errors = Put(entry.errors, col, Put(cols, pvar, numerrors)),
                          !.total = entry.total + numerrors])

RECURSIVE FillErrors(_, _, _, _, _)
FillErrors(contents, rowname, colname, pievar, output) ==
    IF contents = <<>> THEN output
    ELSE LET r == Head(contents)
         IN  FillErrors(Tail(contents), rowname, colname, pievar,
                        AddError(output, r[rowname], r[colname], r[pievar], r.numbererrors))

\* the query names the column pievar as the caller gave it
get_errors(table, pievar) ==
    LET names == get_row_col_names(pievar)
    IN  IF pievar \notin TableColumns THEN Raised("OperationalError")
        ELSE Returned(FillErrors(OrderBy3(table, names[1], names[2], pievar),
                                 names[1], names[2], pievar, EmptyMap))

\* the (name, number) pairs of the rows that match; the query has no ORDER BY,
\* so the result is given as the set of its pairs
list_matching_pievars(table, pievar, row, col) ==
    LET names == get_row_col_names(pievar)
    IN  IF pievar \notin TableColumns THEN Raised("OperationalError")
        ELSE Returned({<<r[pievar], r.numbererrors>> :
                        r \in {q \in table : q[names[1]] = row /\ q[names[2]] = col}})

(***************************************************************************)
(* get_errors_and_pietitles (src/globalerrors.py): the totals of the rows  *)
(* and columns and the slices of every cell.  The titles of the pie        *)
(* charts, strings made for the tooltips, are left out.                    *)
(***************************************************************************)

\* piemap.get(value, 0), piemap made of the pairs of list_matching_pievars
PieCount(pairs, value) ==
    LET m == {q \in pairs : q[1] = value}
    IN  IF m = {} THEN 0 ELSE (CHOOSE q \in m : TRUE)[2]

\* the pairs list_matching_pievars gives for every (row, col) cell, row-major
PiePairs(table, allmap, pievar) ==
    LET names == get_row_col_names(pievar)
        rows == allmap[names[1]]
        cols == allmap[names[2]]
    IN  [c \in 1..(Len(rows) * Len(cols)) |->
            list_matching_pievars(table, pievar,
                                  rows[((c - 1) \div Len(cols)) + 1],
                                  cols[((c - 1) % Len(cols)) + 1]).value]

\* pieinfo before it is sorted: one list per (row, col) cell, each in the order
\* of allmap[pievar]
PieInfo(table, allmap, pievar) ==
    LET pairs == PiePairs(table, allmap, pievar)
        values == allmap[pievar]
    IN  [c \in 1..Len(pairs) |-> [k \in 1..Len(values) |-> PieCount(pairs[c], values[k])]]

\* sum(toappend): the numbers of a cell's pairs that are not 0
RECURSIVE SumErrors(_)
SumErrors(pairs) ==
    IF pairs = {} THEN 0
    ELSE LET q == CHOOSE x \in pairs : TRUE
         IN  (IF q[2] # 0 THEN q[2] ELSE 0) + SumErrors(pairs \ {q})

\* sum_list: per pievar value, its numbers added over the cells
RECURSIVE SumList(_, _)
SumList(pieinfo, n) ==
    IF pieinfo = <<>> THEN [k \in 1..n |-> 0]
    ELSE LET rest == SumList(Tail(pieinfo), n)
         IN  [k \in 1..n |-> Head(pieinfo)[k] + rest[k]]

\* a descending order made by reversing an ascending one: equal sums come out
\* last index first
RECURSIVE SortedReversed(_, _)
SortedReversed(sum_list, left) ==
    IF left = {} THEN <<>>
    ELSE LET m == CHOOSE i \in left : \A j \in left :
                        sum_list[j] < sum_list[i] \/ (sum_list[j] = sum_list[i] /\ j <= i)
         IN  <<m>> \o SortedReversed(sum_list, left \ {m})

\* the indexes of sorted(enumerate(sum_list), key=(lambda x: x[1]), reverse=True):
\* largest sum first; sorted is stable, with reverse=True too, so equal sums
\* keep the order of their indexes
RECURSIVE SortedIndexes(_, _)
SortedIndexes(sum_list, left) ==
    IF left = {} THEN <<>>
    ELSE LET m == CHOOSE i \in left : \A j \in left :
                        sum_list[j] < sum_list[i] \/ (sum_list[j] = sum_list[i] /\ i <= j)
         IN  <<m>> \o SortedIndexes(sum_list, left \ {m})

\* total_errors['row'][irow], total_errors['col'][icol]: sum_errors added over
\* the cells of the row, of the column
RECURSIVE SumCells(_, _)
SumCells(pairs, cells) ==
    IF cells = {} THEN 0
    ELSE LET c == CHOOSE x \in cells : TRUE
         IN  SumErrors(pairs[c]) + SumCells(pairs, cells \ {c})

get_errors_and_pietitles(table, lists, pievar) ==
    LET allmap == get_allmap(lists)
        names == get_row_col_names(pievar)
        nrows == Len(allmap[names[1]])
        ncols == Len(allmap[names[2]])
    IN  IF pievar \notin TableColumns
        THEN Raised(IF nrows * ncols > 0 THEN "OperationalError" ELSE "KeyError")
        ELSE LET pairs == PiePairs(table, allmap, pievar)
                 pieinfo == PieInfo(table, allmap, pievar)
                 n == Len(allmap[pievar])
                 order == SortedIndexes(SumList(pieinfo, n), 1..n)
             IN  Returned(
                    [total_errors |->
                        [row |-> [i \in 1..nrows |->
                                    SumCells(pairs, {(i - 1) * ncols + j : j \in 1..ncols})],
                         col |-> [j \in 1..ncols |->
                                    SumCells(pairs, {(i - 1) * ncols + j : i \in 1..nrows})]],
                     sorted_pieinfo |->
                        [c \in 1..Len(pieinfo) |-> [k \in 1..n |-> pieinfo[c][order[k]]]]])

(***************************************************************************)
(* group_errors: the entries of a pivot folded into groups.  The entries   *)
(* of the input are visited in the order the dict iterates them, which is  *)
(* any order; the input is carried through the loop next to the output, so *)
(* that what the call leaves of it can be read afterwards.                 *)
(***************************************************************************)
GroupG == <<103>>                   \* "g"
GroupH == <<104>>                   \* "h"
GroupKeys == {Text(GroupG), Text(GroupH)}

\* the grouping functions tried on the keys of an input: every function
\* into the two groups, and the identity
Groupings(keys) == [keys -> GroupKeys] \cup {[k \in keys |-> k]}

\* the keyword arguments tried: none, or one derived field; its function gives
\* a value made of the group
DerivedFields == {"label"}
DerivedValue(key, group) == <<key, group>>

\* the orders a dict of these keys can be iterated in
Orders(keys) ==
    {s \in [1..Cardinality(keys) -> keys] : \A a, b \in DOMAIN s : s[a] = s[b] => a = b}

\* the same with each number assigned, not added
AddErrorsAssign(errors, more) ==
    LET rows == DOMAIN errors \cup {row \in DOMAIN more : DOMAIN more[row] # {}}
    IN  [row \in rows |->
            LET old == Get(errors, row, EmptyMap)
                new == Get(more, row, EmptyMap)
            IN  [col \in DOMAIN old \cup DOMAIN new |-> Get(new, col, Get(old, col, 0))]]

\* output[group]['errors'][row][col] += numerrors over the rows and cols of
\* values['errors']; a row without cols creates nothing
AddErrors(errors, more) ==
    LET rows == DOMAIN errors \cup {row \in DOMAIN more : DOMAIN more[row] # {}}
    IN  [row \in rows |->
            LET old == Get(errors, row, EmptyMap)
                new == Get(more, row, EmptyMap)
            IN  [col \in DOMAIN old \cup DOMAIN new |-> Get(old, col, 0) + Get(new, col, 0)]]

\* the errors of the entry kept, not the entry
KeepSubErrors(sub, group, subgroup, values) == Put(sub, subgroup, values.errors)

\* output[group]['sub'][subgroup] = values
KeepSub(sub, group, subgroup, values) == Put(sub, subgroup, values)

\* the total assigned, not added
LastTotal(total, values) == values.total

\* output[group]['total'] += values['total']
AddTotal(total, values) == total + values.total

\* output[group][key] = func(group) for every keyword argument
WithFields(entry, group, kwargs) ==
    [x \in DOMAIN entry \cup kwargs |->
        IF x \in kwargs THEN DerivedValue(x, group) ELSE entry[x]]

\* the calls func(group) made, only the first for each group counted
EvaluateOnce(evaluated, group, kwargs) ==
    [call \in DOMAIN evaluated \cup {<<key, group>> : key \in kwargs} |-> 1]

\* the calls func(group) the loop body makes, one for every keyword argument,
\* added to the count of the calls made so far of each function on each group
Evaluate(evaluated, group, kwargs) ==
    LET calls_made == {<<key, group>> : key \in kwargs}
    IN  [call \in DOMAIN evaluated \cup calls_made |->
            Get(evaluated, call, 0) + (IF call \in calls_made THEN 1 ELSE 0)]

\* the entry of the group after the entry of the input is added to it
Summed(entry, group, subgroup, values) ==
    [x \in DOMAIN entry |->
        CASE x = "errors" -> AddErrors(entry.errors, values.errors)
          [] x = "sub" -> KeepSub(entry.sub, group, subgroup, values)
          [] x = "total" -> AddTotal(entry.total, values)
          [] OTHER -> entry[x]]

\* a loop body that moves the total of the entry into the group and leaves 0
GroupStepMoving(state, subgroup, grouping_function, kwargs) ==
    LET values == state.input[subgroup]
        group == grouping_function[subgroup]
        entry == Get(state.output, group, DefaultEntry)
    IN  [input |-> [state.input EXCEPT ![subgroup].total = 0],
         output |-> Put(state.output, group,
                        WithFields(Summed(entry, group, subgroup, values), group, kwargs)),
         evaluated |-> Evaluate(state.evaluated, group, kwargs)]

\* the body of the loop for one entry of the input: output[group] is a new
\* default entry when the group is new, nothing is stored into values, and
\* output[group]['sub'][subgroup] is the entry itself
GroupStep(state, subgroup, grouping_function, kwargs) ==
    LET values == state.input[subgroup]
        group == grouping_function[subgroup]
        entry == Get(state.output, group, DefaultEntry)
    IN  [input |-> state.input,
         output |-> Put(state.output, group,
                        WithFields(Summed(entry, group, subgroup, values), group, kwargs)),
         evaluated |-> Evaluate(state.evaluated, group, kwargs)]

RECURSIVE GroupLoop(_, _, _, _)
GroupLoop(state, order, grouping_function, kwargs) ==
    IF order = <<>> THEN state
    ELSE GroupLoop(GroupStep(state, Head(order), grouping_function, kwargs),
                   Tail(order), grouping_function, kwargs)

\* the input as the call leaves it, the output, and the calls made of the
\* functions of the keyword arguments
group_errors(input_errors, grouping_function, kwargs, order) ==
    GroupLoop([input |-> input_errors, output |-> EmptyMap, evaluated |-> EmptyMap],
              order, grouping_function, kwargs)

(***************************************************************************)
(* ErrorInfo.setup and ErrorInfo.return_workflows: the load.  The source   *)
(* is a database file that exists (its errorcode column may hold texts),   *)
(* a source given to the constructor, or the configured source; only the   *)
(* last adds the sibling workflows.  workflowinfo gives the workflows of   *)
(* the prep ids of the workflows loaded first.                             *)
(***************************************************************************)
StepOnly == <<47, 97>>                      \* "/a"
StepAB == <<47, 97, 45, 98, 47, 120>>       \* "/a-b/x"
Code10 == <<49, 48>>                        \* "10"
Code2 == <<50>>                             \* "2"
CodeAb == <<97, 98>>                        \* "ab"
WorkflowB == <<98>>                         \* "b"
WorkflowC == <<99>>                         \* "c"

LoadSteps == {StepOnly, StepA, StepAB, StepB}
LoadCodes == {Code10, Code2, CodeAbc, CodeAb}
\* the subsets of S of at most n elements
RECURSIVE UpTo(_, _)
UpTo(S, n) ==
    IF n = 0 THEN {{}}
    ELSE LET smaller == UpTo(S, n - 1)
         IN  smaller \cup {T \cup {x} : T \in smaller, x \in S}

MaxLoaded == 3      \* rows a load stores

\* the (step, site, code) keys of the sources tried: every step and code at
\* one site, and one step at a second site
LoadKeys == (LoadSteps \X {Site1} \X LoadCodes) \cup ({StepB} \X {Site2} \X LoadCodes)
LoadKeySets == UpTo(LoadKeys, MaxLoaded)

Sources == {"db", "given", "configured"}

\* the arguments of a load: the sibling workflows and include_all_acdcs are
\* read for the configured source only
LoadArgs ==
    {a \in Sources \X (SUBSET {WorkflowB, WorkflowC}) \X BOOLEAN :
        a[1] # "configured" => (a[2] = {} /\ a[3] = FALSE)}

\* step.split('/')
RECURSIVE Split(_)
Split(s) ==
    IF \A i \in 1..Len(s) : s[i] # 47 THEN <<s>>
    ELSE LET i == CHOOSE j \in 1..Len(s) : s[j] = 47 /\ \A k \in 1..(j - 1) : s[k] # 47
         IN  <<SubSeq(s, 1, i - 1)>> \o Split(SubSeq(s, i + 1, Len(s)))

\* the loop of return_workflows: val is appended when it is not the last one
RECURSIVE ReturnLoop(_, _, _)
ReturnLoop(steps, last, wfs) ==
    IF steps = <<>> THEN wfs
    ELSE LET val == Split(Head(steps).s)[2]
         IN  ReturnLoop(Tail(steps), val, IF val # last THEN Append(wfs, val) ELSE wfs)

return_workflows(allsteps) == ReturnLoop(allsteps, <<>>, <<>>)

\* the rows of a source: a database file gives the codes as it holds them,
\* here as texts; add_to_database stores them in the numeric column
LoadedRows(K, source) ==
    {[Row(k[1], k[2], k[3], 1, "green") EXCEPT
        !.errorcode = IF source = "db" THEN Text(k[3]) ELSE StoredCode(k[3])] : k \in K}

\* '/%s/' % zero
ZeroStep(zero) == Text(<<47>> \o zero \o <<47>>)

\* the lists of the first call of set_all_lists kept to the end
FirstLists(first, table, other_workflows, include_all_acdcs) == set_all_lists(first)

\* the lists of the configured source: set_all_lists after the rows of the
\* sibling workflows are added, and with include_all_acdcs the steps of the
\* siblings that have no row, then allsteps.sort(); allsteps is the list of
\* self.info too
ConfiguredLists(first, table, other_workflows, include_all_acdcs) ==
    LET lists == set_all_lists(table)
        current_workflows == Elements(return_workflows(lists.allsteps))
        zeros == {ZeroStep(zero) : zero \in other_workflows \ current_workflows}
    IN  IF include_all_acdcs
        THEN [lists EXCEPT !.allsteps = SortValues(Elements(lists.allsteps) \cup zeros)]
        ELSE lists

\* the table and the lists setup leaves.  K are the rows of the source and of
\* the sibling workflows; siblings are the workflows workflowinfo gives that
\* were not loaded first
setup(K, source, siblings, include_all_acdcs) ==
    LET all == LoadedRows(K, source)
        first == {r \in all : Split(r.stepname.s)[2] \notin siblings}
        other_workflows == IF first = {} THEN {} ELSE siblings
        table == IF first = {} THEN first ELSE all
    IN  IF source # "configured"
        THEN [table |-> all, info |-> set_all_lists(all), other_workflows |-> {}]
        ELSE [table |-> table,
              info |-> ConfiguredLists(first, table, other_workflows, include_all_acdcs),
              other_workflows |-> other_workflows]

(***************************************************************************)
(* The server: request threads calling check_session and the reads, the    *)
(* process-wide handle and the handle of each session, and the clock.      *)
(* What a load reads is abstracted to the version of the source it read:   *)
(* the table, the dimension lists and the caches of a handle each carry    *)
(* the version they were made from (0: a table created and not filled).    *)
(***************************************************************************)
Threads == {"t1", "t2"}
Sessions == {"s1"}
Scopes == {"global"} \cup Sessions

STALE == 1800       \* 60*30
MaxTicks == 1       \* advances of the clock
MaxCalls == 2       \* requests the server takes

\* the source as it is at a time: it may have changed whenever time has passed
SourceAt(time) == time + 1

\* the calls a thread makes, and whether each passes can_refresh=True
\* (get_errors stands for list_matching_pievars too: check_session(session, True),
\* then one query)
Ops == {"get_step_table", "see_workflow", "get_errors"}
CanRefresh(op) == op = "get_errors"
FirstAfter(op) ==
    CASE op = "get_step_table" -> "gst_allmap"
      [] op = "see_workflow" -> "sw_info"
      [] OTHER -> "exec"

Idle == [op |-> "idle", pc |-> "idle", scope |-> "global", can_refresh |-> FALSE,
         info |-> 0, after |-> "idle", seen |-> {}]

\* a cache attribute (_step_tables, _step_list): None, the empty defaultdict
\* just assigned, or filled from the table of a load
NoCache == [state |-> "None", epoch |-> 0]
Published == [state |-> "empty", epoch |-> 0]
Filled(e) == [state |-> "filled", epoch |-> e]

\* ErrorInfo() at time `time`.  `loaded` and `failed` are history: the timestamp
\* of the last load completed on the handle (its lists are `info`), and whether
\* a refresh after it failed
NewHandle(time) ==
    [timestamp |-> time, conn |-> "open", table |-> SourceAt(time), info |-> SourceAt(time),
     step_tables |-> NoCache, step_list |-> NoCache, db_lock |-> FALSE,
     loaded |-> time, failed |-> FALSE]

ServerStart ==
    /\ now = 0
    /\ calls = 0
    /\ GLOBAL_INFO = 0
    /\ GLOBAL_LOCK = FALSE
    /\ session = [s \in Sessions |-> [lock |-> "None", info |-> 0]]
    /\ handles = <<>>
    /\ th = [t \in Threads |-> Idle]
    /\ made = [info |-> [s \in Scopes |-> 0], lock |-> [s \in Sessions |-> 0]]

At(t, label) == th[t].pc = label
Goto(t, label) == th' = [th EXCEPT ![t].pc = label]

\* the operation leaves with an exception: the thread keeps nothing of the call
Raise(t) == th' = [th EXCEPT ![t] = [Idle EXCEPT !.op = th[t].op, !.pc = "raised"]]
Handle(t) == handles[th[t].info]

\* a threshold that the exact age already passes
IsStaleAtThreshold(timestamp, time) == timestamp <= time - STALE

\* theinfo.timestamp < time.time() - 60*30
IsStale(timestamp, time) == timestamp < time - STALE

\* time passes: as long as the threshold, or just longer.  The clock is looked
\* at when a handle is made, in the check of its age and in setup; time that
\* passes elsewhere is the same as time that passes just before these, and
\* time before the first handle is made moves every timestamp alike
ClockReads == {"cs_snew", "cs_gnew", "cs_check", "su_open", "su_fill"}

Tick ==
    /\ handles # <<>>
    /\ \E t \in Threads : th[t].pc \in ClockReads
    /\ now \div STALE < MaxTicks
    /\ \E d \in {STALE, STALE + 1} : now' = now + d
    /\ UNCHANGED <<calls, GLOBAL_INFO, GLOBAL_LOCK, session, handles, th, made>>
    /\ UNCHANGED tvars

\* a request arrives: the thread enters an operation, which first calls check_session
Call(t, op, scope) ==
    /\ At(t, "idle")
    /\ calls < MaxCalls
    /\ calls' = calls + 1
    /\ th' = [th EXCEPT ![t] = [Idle EXCEPT !.op = op, !.pc = "cs_enter", !.scope = scope,
                                          !.can_refresh = CanRefresh(op),
                                          !.after = FirstAfter(op)]]
    /\ UNCHANGED <<now, GLOBAL_INFO, GLOBAL_LOCK, session, handles, made>>
    /\ UNCHANGED tvars

(***************************************************************************)
(* check_session                                                           *)
(***************************************************************************)
\* an acquire that does not wait for the holder
CS_AcquireGlobalHeld(t) ==
    /\ At(t, "cs_enter")
    /\ GLOBAL_LOCK' = TRUE
    /\ Goto(t, IF th[t].scope = "global" THEN "cs_ginfo" ELSE "cs_lock")
    /\ UNCHANGED <<now, calls, GLOBAL_INFO, session, handles, made>>
    /\ UNCHANGED tvars

\* GLOBAL_LOCK.acquire(), of either branch
CS_AcquireGlobal(t) ==
    /\ At(t, "cs_enter")
    /\ ~GLOBAL_LOCK
    /\ GLOBAL_LOCK' = TRUE
    /\ Goto(t, IF th[t].scope = "global" THEN "cs_ginfo" ELSE "cs_lock")
    /\ UNCHANGED <<now, calls, GLOBAL_INFO, session, handles, made>>
    /\ UNCHANGED tvars

\* if session.get('lock') is None: (and GLOBAL_LOCK.release() if it is not)
CS_CheckLock(t) ==
    /\ At(t, "cs_lock")
    /\ IF session[th[t].scope].lock = "None"
       THEN Goto(t, "cs_mklock") /\ UNCHANGED GLOBAL_LOCK
       ELSE Goto(t, "cs_slock") /\ GLOBAL_LOCK' = FALSE
    /\ UNCHANGED <<now, calls, GLOBAL_INFO, session, handles, made>>
    /\ UNCHANGED tvars

\* session['lock'] = threading.Lock(); GLOBAL_LOCK.release()
CS_MakeLock(t) ==
    /\ At(t, "cs_mklock")
    /\ session' = [session EXCEPT ![th[t].scope].lock = "free"]
    /\ made' = [made EXCEPT !.lock[th[t].scope] = @ + 1]
    /\ GLOBAL_LOCK' = FALSE
    /\ Goto(t, "cs_slock")
    /\ UNCHANGED <<now, calls, GLOBAL_INFO, handles>>
    /\ UNCHANGED tvars

\* session['lock'].acquire()
CS_AcquireSession(t) ==
    /\ At(t, "cs_slock")
    /\ session[th[t].scope].lock = "free"
    /\ session' = [session EXCEPT ![th[t].scope].lock = "held"]
    /\ Goto(t, "cs_sinfo")
    /\ UNCHANGED <<now, calls, GLOBAL_INFO, GLOBAL_LOCK, handles, made>>
    /\ UNCHANGED tvars

\* if session.get('info') is None: ... ; theinfo = session.get('info')
CS_CheckSessionInfo(t) ==
    /\ At(t, "cs_sinfo")
    /\ th' = [th EXCEPT ![t].pc = IF session[th[t].scope].info = 0 THEN "cs_snew"
                                  ELSE "cs_check",
                        ![t].info = session[th[t].scope].info]
    /\ UNCHANGED <<now, calls, GLOBAL_INFO, GLOBAL_LOCK, session, handles, made>>
    /\ UNCHANGED tvars

\* session['info'] = ErrorInfo(): the load succeeds, or setup raises and the
\* exception leaves check_session with the session lock held
CS_NewSessionInfo(t) ==
    /\ At(t, "cs_snew")
    /\ made' = [made EXCEPT !.info[th[t].scope] = @ + 1]
    /\ \/ /\ handles' = Append(handles, NewHandle(now))
          /\ session' = [session EXCEPT ![th[t].scope].info = Len(handles) + 1]
          /\ th' = [th EXCEPT ![t].pc = "cs_check", ![t].info = Len(handles) + 1]
       \/ /\ Raise(t)
          /\ UNCHANGED <<session, handles>>
    /\ UNCHANGED <<now, calls, GLOBAL_INFO, GLOBAL_LOCK>>
    /\ UNCHANGED tvars

\* if GLOBAL_INFO is None: (and theinfo = GLOBAL_INFO; GLOBAL_LOCK.release() if
\* it is not)
CS_CheckGlobalInfo(t) ==
    /\ At(t, "cs_ginfo")
    /\ IF GLOBAL_INFO = 0
       THEN Goto(t, "cs_gnew") /\ UNCHANGED GLOBAL_LOCK
       ELSE /\ th' = [th EXCEPT ![t].pc = "cs_check", ![t].info = GLOBAL_INFO]
            /\ GLOBAL_LOCK' = FALSE
    /\ UNCHANGED <<now, calls, GLOBAL_INFO, session, handles, made>>
    /\ UNCHANGED tvars

\* GLOBAL_INFO = ErrorInfo(); theinfo = GLOBAL_INFO; GLOBAL_LOCK.release(): the
\* load succeeds, or setup raises and the exception leaves check_session with
\* GLOBAL_LOCK held
CS_NewGlobalInfo(t) ==
    /\ At(t, "cs_gnew")
    /\ made' = [made EXCEPT !.info["global"] = @ + 1]
    /\ \/ /\ handles' = Append(handles, NewHandle(now))
          /\ GLOBAL_INFO' = Len(handles) + 1
          /\ GLOBAL_LOCK' = FALSE
          /\ th' = [th EXCEPT ![t].pc = "cs_check", ![t].info = Len(handles) + 1]
       \/ /\ Raise(t)
          /\ UNCHANGED <<GLOBAL_INFO, GLOBAL_LOCK, handles>>
    /\ UNCHANGED <<now, calls, session>>
    /\ UNCHANGED tvars

\* if can_refresh and theinfo.timestamp < time.time() - 60*30:
CS_Check(t) ==
    /\ At(t, "cs_check")
    /\ Goto(t, IF th[t].can_refresh /\ IsStale(Handle(t).timestamp, now)
               THEN "td_caches" ELSE "cs_release")
    /\ UNCHANGED <<now, calls, GLOBAL_INFO, GLOBAL_LOCK, session, handles, made>>
    /\ UNCHANGED tvars

\* a return that leaves the session lock as it is
CS_ReturnLocked(t) ==
    /\ At(t, "cs_release")
    /\ Goto(t, th[t].after)
    /\ UNCHANGED <<now, calls, GLOBAL_INFO, GLOBAL_LOCK, session, handles, made>>
    /\ UNCHANGED tvars

\* if session: session['lock'].release(); return theinfo
CS_Return(t) ==
    /\ At(t, "cs_release")
    /\ session' = IF th[t].scope = "global" THEN session
                  ELSE [session EXCEPT ![th[t].scope].lock = "free"]
    /\ Goto(t, th[t].after)
    /\ UNCHANGED <<now, calls, GLOBAL_INFO, GLOBAL_LOCK, handles, made>>
    /\ UNCHANGED tvars

(***************************************************************************)
(* The refresh: theinfo.teardown() and theinfo.setup(), on a handle other  *)
(* threads may hold.                                                       *)
(***************************************************************************)
SetHandle(t, h) == handles' = [handles EXCEPT ![th[t].info] = h]

\* self._step_tables = None; self._step_list = None
TD_Caches(t) ==
    /\ At(t, "td_caches")
    /\ SetHandle(t, [Handle(t) EXCEPT !.step_tables = NoCache, !.step_list = NoCache])
    /\ Goto(t, "td_close")
    /\ UNCHANGED <<now, calls, GLOBAL_INFO, GLOBAL_LOCK, session, made>>
    /\ UNCHANGED tvars

\* self.conn.close()
TD_Close(t) ==
    /\ At(t, "td_close")
    /\ SetHandle(t, [Handle(t) EXCEPT !.conn = "closed"])
    /\ Goto(t, "su_open")
    /\ UNCHANGED <<now, calls, GLOBAL_INFO, GLOBAL_LOCK, session, made>>
    /\ UNCHANGED tvars

\* self.timestamp = time.time(); self.conn = sqlite3.connect(':memory:'); create_table
SU_Open(t) ==
    /\ At(t, "su_open")
    /\ SetHandle(t, [Handle(t) EXCEPT !.timestamp = now, !.conn = "open", !.table = 0])
    /\ Goto(t, "su_fill")
    /\ UNCHANGED <<now, calls, GLOBAL_INFO, GLOBAL_LOCK, session, made>>
    /\ UNCHANGED tvars

\* errorutils.add_to_database(self, data_location): the rows of the source
\* are stored, or the source cannot be read (or the connection has been
\* closed under the load) and the exception leaves setup and check_session
SU_Fill(t) ==
    /\ At(t, "su_fill")
    /\ \/ /\ Handle(t).conn = "open"
          /\ SetHandle(t, [Handle(t) EXCEPT !.table = SourceAt(now)])
          /\ Goto(t, "su_lists")
       \/ /\ SetHandle(t, [Handle(t) EXCEPT !.failed = TRUE])
          /\ Raise(t)
    /\ UNCHANGED <<now, calls, GLOBAL_INFO, GLOBAL_LOCK, session, made>>
    /\ UNCHANGED tvars

\* self.set_all_lists() and the readiness list: queries through self.execute
SU_Lists(t) ==
    /\ At(t, "su_lists")
    /\ ~Handle(t).db_lock
    /\ IF Handle(t).conn = "open"
       THEN /\ SetHandle(t, [Handle(t) EXCEPT
                    !.info = Handle(t).table,
                    !.loaded = Handle(t).timestamp,
                    !.failed = FALSE])
            /\ Goto(t, "cs_release")
       ELSE /\ SetHandle(t, [Handle(t) EXCEPT !.failed = TRUE])
            /\ Raise(t)
    /\ UNCHANGED <<now, calls, GLOBAL_INFO, GLOBAL_LOCK, session, made>>
    /\ UNCHANGED tvars

(***************************************************************************)
(* The reads.  `seen` collects the loads a call has computed its result    *)
(* from (0: a table or a cache with nothing in it yet).                    *)
(***************************************************************************)
See(t, e, label) == th' = [th EXCEPT ![t].seen = @ \cup {e}, ![t].pc = label]

\* the last read of an operation: the thread keeps what the result was computed from
Finish(t, e) ==
    th' = [th EXCEPT ![t] = [Idle EXCEPT !.op = th[t].op, !.pc = "done",
                                         !.seen = th[t].seen \cup {e}]]

\* the second and later calls of check_session inside one operation
Recheck(t, e, after) ==
    th' = [th EXCEPT ![t].seen = @ \cup {e}, ![t].pc = "cs_enter", ![t].after = after]

\* list_matching_pievars, get_errors: curs.execute(query) after check_session(session, True)
Exec(t) ==
    /\ At(t, "exec")
    /\ ~Handle(t).db_lock
    /\ IF Handle(t).conn = "open" THEN Finish(t, Handle(t).table) ELSE Raise(t)
    /\ UNCHANGED <<now, calls, GLOBAL_INFO, GLOBAL_LOCK, session, handles, made>>
    /\ UNCHANGED tvars

\* get_step_table: allmap = info.get_allmap()
GST_Allmap(t) ==
    /\ At(t, "gst_allmap")
    /\ See(t, Handle(t).info, "gst_check")
    /\ UNCHANGED <<now, calls, GLOBAL_INFO, GLOBAL_LOCK, session, handles, made>>
    /\ UNCHANGED tvars

\* ErrorInfo.get_step_table: if self._step_tables is None:
GST_Check(t) ==
    /\ At(t, "gst_check")
    /\ Goto(t, IF Handle(t).step_tables.state = "None" THEN "gst_publish" ELSE "gst_read")
    /\ UNCHANGED <<now, calls, GLOBAL_INFO, GLOBAL_LOCK, session, handles, made>>
    /\ UNCHANGED tvars

\* _get_step_tables: self._step_tables = defaultdict(...)
GST_Publish(t) ==
    /\ At(t, "gst_publish")
    /\ SetHandle(t, [Handle(t) EXCEPT !.step_tables = Published])
    /\ Goto(t, "gst_query")
    /\ UNCHANGED <<now, calls, GLOBAL_INFO, GLOBAL_LOCK, session, made>>
    /\ UNCHANGED tvars

\* _get_step_tables: the query and the loop that appends its rows to
\* self._step_tables (None again if a teardown came between: TypeError)
GST_Query(t) ==
    /\ At(t, "gst_query")
    /\ ~Handle(t).db_lock
    /\ IF Handle(t).conn = "closed" \/ (Handle(t).step_tables.state = "None" /\ Handle(t).table # 0)
       THEN Raise(t) /\ UNCHANGED handles
       ELSE /\ SetHandle(t, [Handle(t) EXCEPT !.step_tables =
                    IF @.state = "None" THEN @ ELSE Filled(Handle(t).table)])
            /\ Goto(t, "gst_read")
    /\ UNCHANGED <<now, calls, GLOBAL_INFO, GLOBAL_LOCK, session, made>>
    /\ UNCHANGED tvars

\* output.extend(self._step_tables[step][key]), and the merge into the table
GST_Read(t) ==
    /\ At(t, "gst_read")
    /\ IF Handle(t).step_tables.state = "None" THEN Raise(t)
       ELSE Finish(t, Handle(t).step_tables.epoch)
    /\ UNCHANGED <<now, calls, GLOBAL_INFO, GLOBAL_LOCK, session, handles, made>>
    /\ UNCHANGED tvars

\* see_workflow: _, _, allerrors, allsites = check_session(session).info, then
\* check_session(session).get_step_list(workflow)
SW_Info(t) ==
    /\ At(t, "sw_info")
    /\ Recheck(t, Handle(t).info, "gsl_check")
    /\ UNCHANGED <<now, calls, GLOBAL_INFO, GLOBAL_LOCK, session, handles, made>>
    /\ UNCHANGED tvars

\* get_step_list: if self._step_list is None:
GSL_Check(t) ==
    /\ At(t, "gsl_check")
    /\ Goto(t, IF Handle(t).step_list.state = "None" THEN "gsl_publish" ELSE "gsl_read")
    /\ UNCHANGED <<now, calls, GLOBAL_INFO, GLOBAL_LOCK, session, handles, made>>
    /\ UNCHANGED tvars

\* self._step_list = defaultdict(list)
GSL_Publish(t) ==
    /\ At(t, "gsl_publish")
    /\ SetHandle(t, [Handle(t) EXCEPT !.step_list = Published])
    /\ Goto(t, "gsl_query")
    /\ UNCHANGED <<now, calls, GLOBAL_INFO, GLOBAL_LOCK, session, made>>
    /\ UNCHANGED tvars

\* self.db_lock.acquire(); self.curs.execute(...); the loop; self.db_lock.release():
\* an exception of execute or of the loop leaves the lock held
GSL_Query(t) ==
    /\ At(t, "gsl_query")
    /\ ~Handle(t).db_lock
    /\ IF Handle(t).conn = "closed" \/ (Handle(t).step_list.state = "None" /\ Handle(t).table # 0)
       THEN /\ SetHandle(t, [Handle(t) EXCEPT !.db_lock = TRUE])
            /\ Raise(t)
       ELSE /\ SetHandle(t, [Handle(t) EXCEPT !.step_list =
                    IF @.state = "None" THEN @ ELSE Filled(Handle(t).table)])
            /\ Goto(t, "gsl_read")
    /\ UNCHANGED <<now, calls, GLOBAL_INFO, GLOBAL_LOCK, session, made>>
    /\ UNCHANGED tvars

\* return self._step_list[workflow]; see_workflow then calls
\* get_step_table(step, session) for the steps of the list
GSL_Read(t) ==
    /\ At(t, "gsl_read")
    /\ IF Handle(t).step_list.state = "None" THEN Raise(t)
       ELSE IF Handle(t).step_list.epoch = 0 THEN Finish(t, 0)
       ELSE Recheck(t, Handle(t).step_list.epoch, "gst_allmap")
    /\ UNCHANGED <<now, calls, GLOBAL_INFO, GLOBAL_LOCK, session, handles, made>>
    /\ UNCHANGED tvars

\* the operation returns or raises to its caller; the thread takes the next request
Return(t) ==
    /\ th[t].pc \in {"done", "raised"}
    /\ th' = [th EXCEPT ![t] = Idle]
    /\ UNCHANGED <<now, calls, GLOBAL_INFO, GLOBAL_LOCK, session, handles, made>>
    /\ UNCHANGED tvars

Init ==
    /\ ServerStart
    /\ workflows = {}
    /\ info = set_all_lists({})
    /\ step_tables = [built |-> FALSE, tables |-> <<>>]
    /\ ret = [op |-> "none"]

Next ==
    \/ Tick
    \/ \E t \in Threads :
        \/ \E op \in Ops, scope \in Scopes : Call(t, op, scope)
        \/ CS_AcquireGlobal(t)
        \/ CS_CheckLock(t)
        \/ CS_MakeLock(t)
        \/ CS_AcquireSession(t)
        \/ CS_CheckSessionInfo(t)
        \/ CS_NewSessionInfo(t)
        \/ CS_CheckGlobalInfo(t)
        \/ CS_NewGlobalInfo(t)
        \/ CS_Check(t)
        \/ CS_Return(t)
        \/ TD_Caches(t)
        \/ TD_Close(t)
        \/ SU_Open(t)
        \/ SU_Fill(t)
        \/ SU_Lists(t)
        \/ Exec(t)
        \/ GST_Allmap(t)
        \/ GST_Check(t)
        \/ GST_Publish(t)
        \/ GST_Query(t)
        \/ GST_Read(t)
        \/ SW_Info(t)
        \/ GSL_Check(t)
        \/ GSL_Publish(t)
        \/ GSL_Query(t)
        \/ GSL_Read(t)
        \/ Return(t)

Spec == Init /\ [][Next]_vars

(***************************************************************************)
(* SpecLive: the server under fair scheduling.  A thread that is inside a  *)
(* call and can take its next step takes it in the end: the interpreter    *)
(* switches between the runnable threads.  Nothing makes a request arrive  *)
(* or time pass.                                                           *)
(***************************************************************************)

\* the next step of a thread inside a call
Step(t) ==
    \/ CS_AcquireGlobal(t)
    \/ CS_CheckLock(t)
    \/ CS_MakeLock(t)
    \/ CS_AcquireSession(t)
    \/ CS_CheckSessionInfo(t)
    \/ CS_NewSessionInfo(t)
    \/ CS_CheckGlobalInfo(t)
    \/ CS_NewGlobalInfo(t)
    \/ CS_Check(t)
    \/ CS_Return(t)
    \/ TD_Caches(t)
    \/ TD_Close(t)
    \/ SU_Open(t)
    \/ SU_Fill(t)
    \/ SU_Lists(t)
    \/ Exec(t)
    \/ GST_Allmap(t)
    \/ GST_Check(t)
    \/ GST_Publish(t)
    \/ GST_Query(t)
    \/ GST_Read(t)
    \/ SW_Info(t)
    \/ GSL_Check(t)
    \/ GSL_Publish(t)
    \/ GSL_Query(t)
    \/ GSL_Read(t)
    \/ Return(t)

SpecLive == Init /\ [][Next]_vars /\ \A t \in Threads : WF_vars(Step(t))

(***************************************************************************)
(* SpecLock: the server with ErrorInfo.execute in two steps, so that the   *)
(* time a thread holds db_lock around its query is a state: the lock is    *)
(* taken, then the query runs and the finally clause releases the lock.    *)
(***************************************************************************)

\* execute: self.db_lock.acquire()
EX_Acquire(t) ==
    /\ At(t, "exec")
    /\ ~Handle(t).db_lock
    /\ SetHandle(t, [Handle(t) EXCEPT !.db_lock = TRUE])
    /\ Goto(t, "ex_run")
    /\ UNCHANGED <<now, calls, GLOBAL_INFO, GLOBAL_LOCK, session, made>>
    /\ UNCHANGED tvars

\* execute: self.curs.execute(query), self.curs.fetchall(), and in the finally
\* clause self.db_lock.release()
EX_Run(t) ==
    /\ At(t, "ex_run")
    /\ SetHandle(t, [Handle(t) EXCEPT !.db_lock = FALSE])
    /\ IF Handle(t).conn = "open" THEN Finish(t, Handle(t).table) ELSE Raise(t)
    /\ UNCHANGED <<now, calls, GLOBAL_INFO, GLOBAL_LOCK, session, made>>
    /\ UNCHANGED tvars

NextLock ==
    \/ Tick
    \/ \E t \in Threads :
        \/ \E op \in Ops, scope \in Scopes : Call(t, op, scope)
        \/ CS_AcquireGlobal(t)
        \/ CS_CheckLock(t)
        \/ CS_MakeLock(t)
        \/ CS_AcquireSession(t)
        \/ CS_CheckSessionInfo(t)
        \/ CS_NewSessionInfo(t)
        \/ CS_CheckGlobalInfo(t)
        \/ CS_NewGlobalInfo(t)
        \/ CS_Check(t)
        \/ CS_Return(t)
        \/ TD_Caches(t)
        \/ TD_Close(t)
        \/ SU_Open(t)
        \/ SU_Fill(t)
        \/ SU_Lists(t)
        \/ EX_Acquire(t)
        \/ EX_Run(t)
        \/ GST_Allmap(t)
        \/ GST_Check(t)
        \/ GST_Publish(t)
        \/ GST_Query(t)
        \/ GST_Read(t)
        \/ SW_Info(t)
        \/ GSL_Check(t)
        \/ GSL_Publish(t)
        \/ GSL_Query(t)
        \/ GSL_Read(t)
        \/ Return(t)

SpecLock == Init /\ [][NextLock]_vars

(***************************************************************************)
(* SpecTable: one handle after ErrorInfo(), and a read made on it.  Each   *)
(* behaviour is one table and one request; the request may be repeated.    *)
(***************************************************************************)

\* the readymatch arguments tried: none, one value, two values
ReadyMatches ==
    {<<>>} \cup {<<a>> : a \in Readiness}
           \cup {m \in Readiness \X Readiness : m[1] # m[2]}

NotBuilt == [built |-> FALSE, tables |-> EmptyMap]
NoCall == [op |-> "none"]

InitTable ==
    /\ \E K \in KeySets : \E count \in [K -> Counts], ready \in [SiteNames -> Readiness] :
            workflows = Table(K, count, ready)
    /\ info = set_all_lists(workflows)
    /\ step_tables = NotBuilt
    /\ ret = NoCall
    /\ ServerStart

\* get_step_table(step, readymatch=readymatch), the dense table
GetStepTable(step, readymatch) ==
    LET tables == IF step_tables.built THEN step_tables.tables
                  ELSE get_step_tables(workflows)
        contents == sparse_step_table(tables, step, readymatch)
        call == [op |-> "get_step_table", step |-> step, readymatch |-> readymatch,
                 value |-> dense_step_table(get_allmap(info), contents)]
    IN  /\ \/ ret = NoCall
           \/ ret.op = call.op /\ ret.step = step /\ ret.readymatch = readymatch
        /\ step_tables' = [built |-> TRUE, tables |-> Touched(tables, step, readymatch)]
        /\ ret' = call
        /\ UNCHANGED <<workflows, info>>
        /\ UNCHANGED cvars

\* get_step_table(step, readymatch=readymatch, sparse=True), first or after
\* another call for the same step and readiness
GetStepTableSparse(step, readymatch) ==
    LET tables == IF step_tables.built THEN step_tables.tables
                  ELSE get_step_tables(workflows)
        contents == sparse_step_table(tables, step, readymatch)
    IN  /\ \/ ret = NoCall
           \/ /\ ret.op \in {"get_step_table", "get_step_table_sparse"}
              /\ ret.step = step /\ ret.readymatch = readymatch
        /\ step_tables' = [built |-> TRUE, tables |-> Touched(tables, step, readymatch)]
        /\ ret' = [op |-> "get_step_table_sparse", step |-> step, readymatch |-> readymatch,
                   value |-> sparse_output(EmptyMap, contents)]
        /\ UNCHANGED <<workflows, info>>
        /\ UNCHANGED cvars

GetRowColNames(pievar) ==
    /\ ret = NoCall
    /\ ret' = [op |-> "get_row_col_names", pievar |-> pievar,
               result |-> Returned(get_row_col_names(pievar))]
    /\ UNCHANGED <<workflows, info, step_tables>>
    /\ UNCHANGED cvars

GetErrors(pievar) ==
    /\ ret = NoCall
    /\ ret' = [op |-> "get_errors", pievar |-> pievar,
               result |-> get_errors(workflows, pievar)]
    /\ UNCHANGED <<workflows, info, step_tables>>
    /\ UNCHANGED cvars

ListMatchingPievars(pievar, row, col) ==
    /\ ret = NoCall
    /\ ret' = [op |-> "list_matching_pievars", pievar |-> pievar, row |-> row, col |-> col,
               result |-> list_matching_pievars(workflows, pievar, row, col)]
    /\ UNCHANGED <<workflows, info, step_tables>>
    /\ UNCHANGED cvars

GetErrorsAndPietitles(pievar) ==
    /\ ret = NoCall
    /\ ret' = [op |-> "get_errors_and_pietitles", pievar |-> pievar,
               result |-> get_errors_and_pietitles(workflows, info, pievar)]
    /\ UNCHANGED <<workflows, info, step_tables>>
    /\ UNCHANGED cvars

NextTable ==
    \/ \E step \in StepNames, readymatch \in ReadyMatches :
            GetStepTable(Text(step), readymatch)
    \/ \E step \in StepNames, readymatch \in ReadyMatches :
            GetStepTableSparse(Text(step), readymatch)

NextPivot ==
    \/ \E pievar \in PieVarArgs : GetRowColNames(pievar)
    \/ \E pievar \in PieVarArgs : GetErrors(pievar)
    \/ \E pievar \in PieVarArgs : GetErrorsAndPietitles(pievar)
    \/ \E pievar \in PieVarArgs :
        \E row \in Elements(get_allmap(info)[get_row_col_names(pievar)[1]]),
           col \in Elements(get_allmap(info)[get_row_col_names(pievar)[2]]) :
            ListMatchingPievars(pievar, row, col)

SpecTable == InitTable /\ [][NextTable]_vars
SpecPivot == InitTable /\ [][NextPivot]_vars

(***************************************************************************)
(* SpecGroup: one loaded handle, a pivot made by get_errors and one call   *)
(* of group_errors on it.                                                  *)
(***************************************************************************)
\* the tables of InitTable with one readiness for every site: get_errors does
\* not read the readiness
InitGroup ==
    /\ \E K \in KeySets : \E count \in [K -> Counts] :
            workflows = Table(K, count, [site \in SiteNames |-> "green"])
    /\ info = set_all_lists(workflows)
    /\ step_tables = NotBuilt
    /\ ret = NoCall
    /\ ServerStart

GroupErrors(pievar, input_errors, grouping_function, kwargs, order) ==
    LET done == group_errors(input_errors, grouping_function, kwargs, order)
    IN  /\ ret' = [op |-> "group_errors", pievar |-> pievar,
                   grouping_function |-> grouping_function, kwargs |-> kwargs,
                   order |-> order, input_errors |-> input_errors,
                   left |-> done.input, result |-> done.output,
                   evaluated |-> done.evaluated]
        /\ UNCHANGED <<workflows, info, step_tables>>
        /\ UNCHANGED cvars

NextGroup ==
    /\ ret = NoCall
    /\ \E pievar \in PieVars :
        LET input_errors == get_errors(workflows, pievar).value
        IN  \E grouping_function \in Groupings(DOMAIN input_errors),
               kwargs \in SUBSET DerivedFields,
               order \in Orders(DOMAIN input_errors) :
                GroupErrors(pievar, input_errors, grouping_function, kwargs, order)

SpecGroup == InitGroup /\ [][NextGroup]_vars

(***************************************************************************)
(* SpecLoad: a handle is constructed, setup fills it, and return_workflows *)
(* is called on it.                                                        *)
(***************************************************************************)
NoLists == [allsteps |-> <<>>, allerrors |-> <<>>, allsites |-> <<>>]

InitLoad ==
    /\ workflows = {}
    /\ info = NoLists
    /\ step_tables = NotBuilt
    /\ ret = NoCall
    /\ ServerStart

Setup(K, source, siblings, include_all_acdcs) ==
    LET loaded == setup(K, source, siblings, include_all_acdcs)
    IN  /\ workflows' = loaded.table
        /\ info' = loaded.info
        /\ ret' = [op |-> "setup", source |-> source,
                   other_workflows |-> loaded.other_workflows,
                   include_all_acdcs |-> include_all_acdcs]
        /\ UNCHANGED step_tables
        /\ UNCHANGED cvars

ReturnWorkflows ==
    /\ ret.op = "setup"
    /\ ret' = [op |-> "return_workflows", value |-> return_workflows(info.allsteps)]
    /\ UNCHANGED <<workflows, info, step_tables>>
    /\ UNCHANGED cvars

Construct ==
    /\ ret = NoCall
    /\ \E K \in LoadKeySets, a \in LoadArgs : Setup(K, a[1], a[2], a[3])

NextLoad ==
    \/ Construct
    \/ ReturnWorkflows

SpecLoad == InitLoad /\ [][NextLoad]_vars

(***************************************************************************)
(* SpecMerge: the merge of get_step_table run cell by cell on any sparse   *)
(* list and any dimension lists, as the loop of the module runs it (the    *)
(* list is popped) and as the loop of the earlier module runs it (the rows *)
(* are fetched from the cursor).  `cursor` is the position in the sparse   *)
(* list of the entry the loop holds, and `emitted` the cells that took an  *)
(* entry, each with the position of the entry.                             *)
(***************************************************************************)
MaxEntries == 2     \* entries of the sparse list

MergeSites == {Text(Site1), Text(Site2)}
MergeErrors == {Integer(99), Text(CodeAbc)}
MergeEntries == Counts \X MergeSites \X MergeErrors

\* the sparse lists: any entries in any order, an entry may come twice
SparseLists == UNION {[1..n -> MergeEntries] : n \in 0..MaxEntries}

\* the dimension lists of an allmap: distinct values in any order, all of
\* them or some
DimensionLists(S) ==
    {list \in UNION {[1..n -> S] : n \in 0..Cardinality(S)} :
        \A a, b \in DOMAIN list : list[a] = list[b] => a = b}

Loops == {"pop", "fetch"}

\* the state before the first cell: the first entry popped (the module), or
\* nothing fetched yet (the earlier module)
MergeStart(loop, errors, sites, contents) ==
    [op |-> "merge", loop |-> loop, errors |-> errors, sites |-> sites,
     contents |-> contents,
     cur |-> IF loop = "pop" THEN Pop(contents) ELSE NoEntry,
     rest |-> IF loop = "pop" THEN Rest(contents) ELSE contents,
     cursor |-> IF loop = "pop" THEN 1 ELSE 0,
     fetch |-> loop = "fetch",
     i |-> 1, j |-> 1, steprow |-> <<>>, steptable |-> <<>>, emitted |-> {}]

InitMerge ==
    /\ workflows = {}
    /\ info = NoLists
    /\ step_tables = NotBuilt
    /\ \E loop \in Loops, errors \in DimensionLists(MergeErrors),
          sites \in DimensionLists(MergeSites), contents \in SparseLists :
            ret = MergeStart(loop, errors, sites, contents)
    /\ ServerStart

InCell == ret.op = "merge" /\ ret.i <= Len(ret.errors) /\ ret.j <= Len(ret.sites)

\* the body of the inner loop of get_step_table: 0, or the count of the entry
\* held and the next entry popped
MergeCellPop ==
    /\ InCell /\ ret.loop = "pop"
    /\ IF CellMatches(ret.errors[ret.i], ret.sites[ret.j], ret.cur)
       THEN ret' = [ret EXCEPT !.steprow = Append(@, ret.cur[1]),
                               !.emitted = @ \cup {<<ret.i, ret.j, ret.cursor>>},
                               !.cur = Pop(ret.rest),
                               !.rest = Rest(ret.rest),
                               !.cursor = Min(@ + 1, Len(ret.contents) + 1),
                               !.j = @ + 1]
       ELSE ret' = [ret EXCEPT !.steprow = Append(@, 0), !.j = @ + 1]
    /\ UNCHANGED <<workflows, info, step_tables>>
    /\ UNCHANGED cvars

\* the body of the inner loop of the earlier get_step_table: a row is fetched
\* when the last one was used (the entry held stays when there is no row
\* left), then 0 or the count of the entry held
MergeCellFetch ==
    /\ InCell /\ ret.loop = "fetch"
    /\ LET line == ret.fetch /\ ret.rest # <<>>
           cur == IF line THEN Head(ret.rest) ELSE ret.cur
           rest == IF line THEN Tail(ret.rest) ELSE ret.rest
           cursor == IF line THEN ret.cursor + 1 ELSE ret.cursor
           held == [ret EXCEPT !.cur = cur, !.rest = rest, !.cursor = cursor,
                               !.fetch = FALSE, !.j = @ + 1]
       IN  IF CellMatches(ret.errors[ret.i], ret.sites[ret.j], cur)
           THEN ret' = [held EXCEPT !.steprow = Append(@, cur[1]),
                                    !.emitted = @ \cup {<<ret.i, ret.j, cursor>>},
                                    !.fetch = TRUE]
           ELSE ret' = [held EXCEPT !.steprow = Append(@, 0)]
    /\ UNCHANGED <<workflows, info, step_tables>>
    /\ UNCHANGED cvars

\* steptable.append(steprow), and steprow = [] of the next row
MergeRowEnd ==
    /\ ret.op = "merge" /\ ret.i <= Len(ret.errors) /\ ret.j > Len(ret.sites)
    /\ ret' = [ret EXCEPT !.steptable = Append(@, ret.steprow), !.steprow = <<>>,
                          !.i = @ + 1, !.j = 1]
    /\ UNCHANGED <<workflows, info, step_tables>>
    /\ UNCHANGED cvars

NextMerge ==
    \/ MergeCellPop
    \/ MergeCellFetch
    \/ MergeRowEnd

SpecMerge == InitMerge /\ [][NextMerge]_vars

(***************************************************************************)
(* Properties of the step tables (SpecTable).                              *)
(***************************************************************************)
RECURSIVE SumSeq(_)
SumSeq(s) == IF s = <<>> THEN 0 ELSE Head(s) + SumSeq(Tail(s))

RECURSIVE SumTable(_)
SumTable(rows) == IF rows = <<>> THEN 0 ELSE SumSeq(Head(rows)) + SumTable(Tail(rows))

RECURSIVE SumCounts(_)
SumCounts(rows) ==
    IF rows = {} THEN 0
    ELSE LET r == CHOOSE x \in rows : TRUE
         IN  r.numbererrors + SumCounts(rows \ {r})

\* the stored records of a step whose readiness is requested
MatchingRows(table, step, readymatch) ==
    {r \in table : r.stepname = step
                    /\ (readymatch = <<>> \/ r.sitereadiness \in Elements(readymatch))}

\* the count of the stored record (step, site, error), 0 without one
CountOf(table, step, site, error) ==
    SumCounts({r \in table : r.stepname = step /\ r.sitename = site /\ r.errorcode = error})

\* the readiness of a site of the index
ReadinessOf(table, site) == (CHOOSE r \in table : r.sitename = site).sitereadiness

\* the position of a value in an index list
IndexOf(list, v) == CHOOSE i \in 1..Len(list) : list[i] = v

\* a sparse list runs in the order of the indices: error code first, then site
InIndexOrder(lists, contents) ==
    \A a, b \in 1..Len(contents) :
        a < b =>
            LET ea == IndexOf(lists.allerrors, contents[a][3])
                eb == IndexOf(lists.allerrors, contents[b][3])
                sa == IndexOf(lists.allsites, contents[a][2])
                sb == IndexOf(lists.allsites, contents[b][2])
            IN  ea < eb \/ (ea = eb /\ sa < sb)

\* get_step_table(step) of a handle just loaded with `table`
UnfilteredTable(table, step) ==
    dense_step_table(get_allmap(set_all_lists(table)),
                     sparse_step_table(get_step_tables(table), step, <<>>))

\* C1: for every step and every readiness filter, the cells of the dense
\* table returned by get_step_table sum to the counts of the stored records
\* of the step whose readiness is requested (all of the step without a filter).
C1_SumOfCells ==
    ret.op = "get_step_table" =>
        SumTable(ret.value) = SumCounts(MatchingRows(workflows, ret.step, ret.readymatch))

\* the scenario: (stepA, site1, 8020, 3), (stepA, site2, 8020, 1), (stepA, site1, 99, 2)
Scenario ==
    {Row(StepA, Site1, Code8020, 3, "green"), Row(StepA, Site2, Code8020, 1, "green"),
     Row(StepA, Site1, Code99, 2, "green")}

FilteredAfterwards(table, step, readymatch) ==
    LET dense == UnfilteredTable(table, step)
        sites == set_all_lists(table).allsites
    IN  [i \in 1..Len(dense) |->
            [j \in 1..Len(dense[i]) |->
                IF ReadinessOf(table, sites[j]) \in Elements(readymatch)
                THEN dense[i][j] ELSE 0]]

\* C3: for every step and every requested set of readiness values, the dense
\* table made from the filtered sparse list is the unfiltered dense table of
\* the step with the columns of the sites of other readiness replaced by zeros.
C3_FilterCommutes ==
    (ret.op = "get_step_table" /\ ret.readymatch # <<>>) =>
        ret.value = FilteredAfterwards(workflows, ret.step, ret.readymatch)

\* the dense table and the sparse mapping hold the same counts: each cell is
\* the value of the mapping at (str(error code), site), 0 without one, and
\* the mapping has no other entry
Agree(dense, sparse, lists) ==
    /\ \A i \in 1..Len(lists.allerrors), j \in 1..Len(lists.allsites) :
            dense[i][j] = Get(sparse, <<str(lists.allerrors[i]), lists.allsites[j]>>, 0)
    /\ \A key \in DOMAIN sparse :
            \E i \in 1..Len(lists.allerrors), j \in 1..Len(lists.allsites) :
                key = <<str(lists.allerrors[i]), lists.allsites[j]>>

\* C25: the two representations of a step table agree: for every step and
\* readiness filter the dense table get_step_table returns and the sparse
\* mapping it returns for the same arguments hold the same count at every
\* (error code, site) of the dimension lists, and the mapping has no entry
\* outside them.
C25_DenseAgreesWithSparse ==
    [][(ret.op = "get_step_table" /\ ret'.op = "get_step_table_sparse")
            => Agree(ret.value, ret'.value, info)]_vars

(***************************************************************************)
(* Properties of the pivot operations (SpecPivot).                         *)
(***************************************************************************)

\* C10: a pievar that names no pivot dimension ("bogus") behaves as
\* "errorcode" in get_row_col_names, get_errors and list_matching_pievars:
\* each returns what it returns for "errorcode" and raises no error.
C10_BogusIsErrorcode ==
    (ret.op # "none" /\ ret.pievar = "bogus") =>
        /\ ret.result.raised = None
        /\ ret.op = "get_row_col_names" =>
                ret.result = Returned(get_row_col_names("errorcode"))
        /\ ret.op = "get_errors" =>
                ret.result = get_errors(workflows, "errorcode")
        /\ ret.op = "list_matching_pievars" =>
                ret.result = list_matching_pievars(workflows, "errorcode", ret.row, ret.col)

\* the numbers of errors of the records with a value in a column, added up
GrandTotal(table, column, value) == SumCounts({r \in table : r[column] = value})

\* the count of the record of a cell with a value of the pievar, 0 without one
SliceCount(table, pievar, row, col, value) ==
    LET names == get_row_col_names(pievar)
    IN  SumCounts({r \in table : r[names[1]] = row /\ r[names[2]] = col /\ r[pievar] = value})

\* the orders of n slices
SliceOrders(n) == {f \in [1..n -> 1..n] : \A a, b \in 1..n : f[a] = f[b] => a = b}

\* an order of the values of the pievar: larger grand total first, equal grand
\* totals in the order of the index
ByGrandTotal(table, pievar, values, order) ==
    \A a, b \in 1..Len(values) :
        a < b =>
            LET ta == GrandTotal(table, pievar, values[order[a]])
                tb == GrandTotal(table, pievar, values[order[b]])
            IN  ta > tb \/ (ta = tb /\ order[a] < order[b])

\* C11: in one result of get_errors_and_pietitles every (row, col) cell lists
\* its slices in one order: the values of the pievar by their grand total over
\* the whole table, descending, values of equal grand total in the order of
\* the index; position k is the same value of the pievar in every cell.
C11_OneSliceOrder ==
    (ret.op = "get_errors_and_pietitles" /\ ret.pievar \in PieVars) =>
        LET allmap == get_allmap(info)
            names == get_row_col_names(ret.pievar)
            rows == allmap[names[1]]
            cols == allmap[names[2]]
            values == allmap[ret.pievar]
            cells == ret.result.value.sorted_pieinfo
        IN  /\ ret.result.raised = None
            /\ Len(cells) = Len(rows) * Len(cols)
            /\ \E order \in SliceOrders(Len(values)) :
                    /\ ByGrandTotal(workflows, ret.pievar, values, order)
                    /\ \A i \in 1..Len(rows), j \in 1..Len(cols) :
                            LET cell == cells[(i - 1) * Len(cols) + j]
                            IN  /\ Len(cell) = Len(values)
                                /\ \A k \in 1..Len(values) :
                                        cell[k] = SliceCount(workflows, ret.pievar, rows[i],
                                                             cols[j], values[order[k]])

\* a result with two cells whose slices are not in the order of the index: the
\* second value of the pievar has the larger grand total
C11_Witness ==
    /\ ret.op = "get_errors_and_pietitles" /\ ret.pievar = "errorcode"
    /\ Len(info.allerrors) = 2
    /\ Len(ret.result.value.sorted_pieinfo) = 2
    /\ GrandTotal(workflows, "errorcode", info.allerrors[2])
            > GrandTotal(workflows, "errorcode", info.allerrors[1])

\* the numbers of a mapping added up
RECURSIVE SumMap(_)
SumMap(f) ==
    IF DOMAIN f = {} THEN 0
    ELSE LET k == CHOOSE x \in DOMAIN f : TRUE
         IN  f[k] + SumMap([x \in DOMAIN f \ {k} |-> f[x]])

\* the nested counts of an entry added up: errors[col][pvar] over col and pvar
SumNested(errors) == SumMap([col \in DOMAIN errors |-> SumMap(errors[col])])

MappedTo(input_errors, grouping_function, group) ==
    {k \in DOMAIN input_errors : grouping_function[k] = group}

\* errors[row][col] of an entry, 0 where the entry has none
ErrorsAt(entry, row, col) == Get(Get(entry.errors, row, EmptyMap), col, 0)

\* the (row, col) pairs an entry has a number for
ErrorKeys(entry) ==
    UNION {{<<row, col>> : col \in DOMAIN entry.errors[row]} : row \in DOMAIN entry.errors}

\* C13: group_errors does not depend on the order its input is iterated in:
\* for every grouping function and every input, every order of the entries
\* gives the same group keys and for every group the same total, the same
\* nested errors and the same sub mapping.
C13_OrderIndependent ==
    ret.op = "group_errors" =>
        \A order \in Orders(DOMAIN ret.input_errors) :
            LET other == group_errors(ret.input_errors, ret.grouping_function,
                                      ret.kwargs, order).output
            IN  /\ DOMAIN other = DOMAIN ret.result
                /\ \A group \in DOMAIN other :
                        /\ other[group].total = ret.result[group].total
                        /\ other[group].errors = ret.result[group].errors
                        /\ other[group].sub = ret.result[group].sub
                /\ other = ret.result

\* two entries of different totals folded into one group
C13_Witness ==
    /\ ret.op = "group_errors"
    /\ Len(ret.order) = 2
    /\ ret.grouping_function[ret.order[1]] = ret.grouping_function[ret.order[2]]
    /\ ret.input_errors[ret.order[1]].total # ret.input_errors[ret.order[2]].total
    /\ ret.result[ret.grouping_function[ret.order[1]]].total
            = ret.input_errors[ret.order[1]].total + ret.input_errors[ret.order[2]].total

\* C14: grouping by the identity is a round trip: the result has exactly the
\* keys of the pivot P, and for every key k the group's errors and total are
\* those of P[k] and its sub mapping has the one entry k, equal to P[k].
C14_IdentityRoundTrip ==
    (ret.op = "group_errors"
        /\ ret.grouping_function = [k \in DOMAIN ret.input_errors |-> k]) =>
        /\ DOMAIN ret.result = DOMAIN ret.input_errors
        /\ \A k \in DOMAIN ret.input_errors :
                /\ ret.result[k].errors = ret.input_errors[k].errors
                /\ ret.result[k].total = ret.input_errors[k].total
                /\ DOMAIN ret.result[k].sub = {k}
                /\ ret.result[k].sub[k] = ret.input_errors[k]

\* a pivot of two keys grouped by the identity
C14_Witness ==
    /\ ret.op = "group_errors"
    /\ Cardinality(DOMAIN ret.input_errors) = 2
    /\ ret.grouping_function = [k \in DOMAIN ret.input_errors |-> k]
    /\ Cardinality(DOMAIN ret.result) = 2

\* C15: group_errors does not change its input: after the call the input has
\* the same keys, and every entry has the same errors, with the same row and
\* col keys, the same sub and the same total as before, for every grouping
\* function and with or without derived fields.
C15_InputUnchanged ==
    ret.op = "group_errors" =>
        /\ DOMAIN ret.left = DOMAIN ret.input_errors
        /\ \A k \in DOMAIN ret.input_errors :
                /\ DOMAIN ret.left[k].errors = DOMAIN ret.input_errors[k].errors
                /\ \A row \in DOMAIN ret.input_errors[k].errors :
                        ret.left[k].errors[row] = ret.input_errors[k].errors[row]
                /\ ret.left[k].sub = ret.input_errors[k].sub
                /\ ret.left[k].total = ret.input_errors[k].total

\* a call with a derived field that folds two entries into one group
C15_Witness ==
    /\ ret.op = "group_errors"
    /\ ret.kwargs = {"label"}
    /\ Cardinality(DOMAIN ret.input_errors) = 2
    /\ Cardinality(DOMAIN ret.result) = 1
    /\ \A group \in DOMAIN ret.result : ret.result[group].total >= 2

\* the numbers f gives on a set, added up
RECURSIVE SumOver(_, _)
SumOver(S, f) ==
    IF S = {} THEN 0
    ELSE LET k == CHOOSE x \in S : TRUE
         IN  f[k] + SumOver(S \ {k}, f)

\* C16: for every group g of the result, with M the input keys the grouping
\* function maps to g: errors[r][c] of the group is the sum of errors[r][c]
\* over the entries of M, the group's total is the sum of their totals, and
\* the group's sub mapping has exactly the keys of M, each with its original
\* entry; the groups are those some key is mapped to; the totals of the groups
\* add up to the totals of the input.
C16_GroupSums ==
    ret.op = "group_errors" =>
        LET P == ret.input_errors
            out == ret.result
        IN  /\ DOMAIN out = {ret.grouping_function[k] : k \in DOMAIN P}
            /\ \A g \in DOMAIN out :
                    LET M == MappedTo(P, ret.grouping_function, g)
                    IN  /\ ErrorKeys(out[g]) = UNION {ErrorKeys(P[k]) : k \in M}
                        /\ \A rc \in ErrorKeys(out[g]) :
                                out[g].errors[rc[1]][rc[2]] =
                                    SumOver(M, [k \in M |-> ErrorsAt(P[k], rc[1], rc[2])])
                        /\ out[g].total = SumOver(M, [k \in M |-> P[k].total])
                        /\ DOMAIN out[g].sub = M
                        /\ \A k \in M : out[g].sub[k] = P[k]
            /\ SumOver(DOMAIN out, [g \in DOMAIN out |-> out[g].total])
                    = SumOver(DOMAIN P, [k \in DOMAIN P |-> P[k].total])

\* a group of two entries that both have a number for one (row, col)
C16_Witness ==
    /\ ret.op = "group_errors"
    /\ \E g \in DOMAIN ret.result :
            LET M == MappedTo(ret.input_errors, ret.grouping_function, g)
            IN  /\ Cardinality(M) = 2
                /\ \E rc \in ErrorKeys(ret.result[g]) :
                        \A k \in M : ErrorsAt(ret.input_errors[k], rc[1], rc[2]) > 0

\* every group of the output carries, for each keyword argument, the value of
\* its function on the group
CarriesDerivedFields ==
    \A group \in DOMAIN ret.result, key \in ret.kwargs :
        ret.result[group][key] = DerivedValue(key, group)

\* C27: the function of each keyword argument of group_errors is called
\* exactly once for each group of the output, and every group of the output
\* carries the value of the function on its own group.
C27_OncePerGroupKey ==
    ret.op = "group_errors" =>
        /\ \A group \in DOMAIN ret.result, key \in ret.kwargs :
                Get(ret.evaluated, <<key, group>>, 0) = 1
        /\ CarriesDerivedFields

\* C27, amended: the function of each keyword argument is called once for
\* each entry of the input, on the group of the entry, that is for each
\* group as many times as the input has entries of the group; and every
\* group of the output carries the value of the function on its own group.
C27_OncePerInputEntry ==
    ret.op = "group_errors" =>
        /\ \A group \in DOMAIN ret.result, key \in ret.kwargs :
                Get(ret.evaluated, <<key, group>>, 0) =
                    Cardinality(MappedTo(ret.input_errors, ret.grouping_function, group))
        /\ DOMAIN ret.evaluated =
                {<<key, group>> : key \in ret.kwargs, group \in DOMAIN ret.result}
        /\ CarriesDerivedFields

\* a call with a keyword argument and a group of two entries of the input
C27_Witness ==
    /\ ret.op = "group_errors"
    /\ ret.kwargs # {}
    /\ \E group \in DOMAIN ret.result :
            /\ Cardinality(MappedTo(ret.input_errors, ret.grouping_function, group)) = 2
            /\ \A key \in ret.kwargs : ret.evaluated[<<key, group>>] = 2

(***************************************************************************)
(* Properties of the load (SpecLoad).                                      *)
(***************************************************************************)

\* a code that parses as an integer, and the integer
Parses(code) == code.cls = "integer" \/ IsDigits(code.s)
IntOf(code) == IF code.cls = "integer" THEN code.n ELSE DecimalValue(code.s)

\* the numeric-aware order of two codes: integers by value, other codes by
\* their characters, every integer before every other code
CodeBefore(a, b) ==
    \/ Parses(a) /\ Parses(b) /\ IntOf(a) < IntOf(b)
    \/ Parses(a) /\ ~Parses(b)
    \/ ~Parses(a) /\ ~Parses(b) /\ StrLess(a.s, b.s)

\* C17: the list of error codes of a loaded handle is in the numeric-aware
\* order: codes that parse as integers by their value, codes that do not by
\* their characters, every code that does not parse after every code that
\* does; the codes 10, 2, abc are listed 2, 10, abc.
C17_NumericAwareOrder ==
    /\ SortBySafeInt({Text(Code10), Text(Code2), Text(CodeAbc)})
            = <<Text(Code2), Text(Code10), Text(CodeAbc)>>
    /\ ret.op # "none" =>
        /\ Elements(info.allerrors) = {r.errorcode : r \in workflows}
        /\ \A i, j \in 1..Len(info.allerrors) :
                i < j => CodeBefore(info.allerrors[i], info.allerrors[j])

\* a database file with the codes 10, 2 and abc as texts is loaded
C17_Witness ==
    /\ ret.op = "setup" /\ ret.source = "db"
    /\ info.allerrors = <<Text(Code2), Text(Code10), Text(CodeAbc)>>

\* a list in ascending order without a value twice
Ascending(list) == \A i, j \in 1..Len(list) : i < j => PyLess(list[i], list[j])
AscendingCodes(list) == \A i, j \in 1..Len(list) : i < j => CodeBefore(list[i], list[j])

\* the workflow of a record: the second segment of its step name
WorkflowOf(r) == Split(r.stepname.s)[2]

\* the steps of the sibling workflows of a load that have no record
ZeroSteps ==
    IF ret.source = "configured" /\ ret.include_all_acdcs
    THEN {ZeroStep(zero) : zero \in ret.other_workflows \ {WorkflowOf(r) : r \in workflows}}
    ELSE {}

\* C18 as stated: after a load every dimension list is sorted, has no value
\* twice and holds exactly the values of its column in the store, also when
\* sibling workflows are added and when include_all_acdcs is configured.
C18_ListsAreStoreValues ==
    ret.op = "setup" =>
        /\ Ascending(info.allsteps)
        /\ Ascending(info.allsites)
        /\ AscendingCodes(info.allerrors)
        /\ Elements(info.allsteps) = {r.stepname : r \in workflows}
        /\ Elements(info.allsites) = {r.sitename : r \in workflows}
        /\ Elements(info.allerrors) = {r.errorcode : r \in workflows}

\* C18 amended: after a load every dimension list is sorted and has no value
\* twice; the lists of sites and of error codes hold exactly the values of
\* their columns in the store; the list of steps holds the step names of the
\* store and, when include_all_acdcs is configured and the configured source
\* is loaded, the step '/<workflow>/' of every sibling workflow that has no
\* record, and nothing else.
C18_ListsAreStoreValuesAndZeroSteps ==
    ret.op = "setup" =>
        /\ Ascending(info.allsteps)
        /\ Ascending(info.allsites)
        /\ AscendingCodes(info.allerrors)
        /\ Elements(info.allsteps) = {r.stepname : r \in workflows} \cup ZeroSteps
        /\ Elements(info.allsites) = {r.sitename : r \in workflows}
        /\ Elements(info.allerrors) = {r.errorcode : r \in workflows}

\* a load of the configured source that added the records of a sibling
\* workflow and, with include_all_acdcs, the step of one without records
C18_Witness ==
    /\ ret.op = "setup" /\ ret.source = "configured" /\ ret.include_all_acdcs
    /\ ret.other_workflows = {WorkflowB, WorkflowC}
    /\ \E r \in workflows : WorkflowOf(r) = WorkflowB
    /\ ZeroSteps = {ZeroStep(WorkflowC)}
    /\ Len(info.allsteps) = 3

\* the workflows of a list of steps in the order they are first seen, each once
RECURSIVE FirstSeen(_, _)
FirstSeen(steps, wfs) ==
    IF steps = <<>> THEN wfs
    ELSE LET val == Split(Head(steps).s)[2]
         IN  FirstSeen(Tail(steps), IF val \in Elements(wfs) THEN wfs ELSE Append(wfs, val))

\* C19: return_workflows gives the workflows of the steps of the handle, the
\* second segment of each step name, in the order they are first seen and
\* none twice, for every sorted list of steps, with step names that are the
\* workflow segment only and workflow names that start other workflow names.
C19_WorkflowsOnce ==
    ret.op = "return_workflows" =>
        /\ ret.value = FirstSeen(info.allsteps, <<>>)
        /\ \A i, j \in 1..Len(ret.value) : ret.value[i] = ret.value[j] => i = j

(***************************************************************************)
(* Properties of the server (Spec).                                        *)
(***************************************************************************)

\* the thread has begun the teardown of its handle and not finished the setup
InRefresh(t) == th[t].pc \in {"td_close", "su_open", "su_fill", "su_lists"}

\* the thread's next step is a query or a read of the caches or lists of its handle
Reading(t) ==
    th[t].pc \in {"exec", "gst_allmap", "gst_query", "gst_read", "sw_info", "gsl_query", "gsl_read"}

\* the handle check_session hands to the callers of a scope
HandleOf(scope) == IF scope = "global" THEN GLOBAL_INFO ELSE session[scope].info

\* C4: the refresh of a handle is serialized, for the process-wide handle and
\* for the handle of a session: no two threads are inside teardown-then-setup
\* of the same handle at the same time.
C4_RefreshSerialized ==
    \A t, u \in Threads :
        (t # u /\ InRefresh(t) /\ InRefresh(u)) => th[t].info # th[u].info

\* C5: no query or read of one thread runs on a handle between the start of
\* another thread's teardown of it and the end of the setup that follows.
C5_NoReadDuringRefresh ==
    [][\A t, u \in Threads :
            (t # u /\ Reading(t) /\ th'[t].pc # th[t].pc)
                => ~(InRefresh(u) /\ th[u].info = th[t].info)]_vars

\* C6: an operation that returns has computed its result from one load: the
\* dimension lists, the cached lists and the queries it used are of one epoch
\* (what was read from a cache or a table with nothing in it yet is left aside).
C6_OneEpochPerRead ==
    \A t \in Threads : th[t].pc = "done" => Cardinality(th[t].seen \ {0}) <= 1

\* C7: after a refresh whose setup failed, the handle still holds the records,
\* the dimension lists and the timestamp of the load before the attempt.
C7_FailedRefreshKeepsEpoch ==
    \A i \in 1..Len(handles) :
        handles[i].failed =>
            /\ handles[i].conn = "open"
            /\ handles[i].table = handles[i].info
            /\ handles[i].timestamp = handles[i].loaded

\* C8: whatever the interleaving of the first calls, ErrorInfo() is called at
\* most once for each scope and Lock() at most once for each session, and
\* every thread holds the one handle of the scope it asked for.
C8_OneHandlePerScope ==
    /\ \A s \in Scopes : made.info[s] <= 1
    /\ \A s \in Sessions : made.lock[s] <= 1
    /\ \A t \in Threads : th[t].info # 0 => th[t].info = HandleOf(th[t].scope)

\* two first calls for the process-wide handle, both past its construction
C8_Witness ==
    /\ calls = 2
    /\ \A t \in Threads : th[t].scope = "global" /\ th[t].pc = "cs_check"
    /\ made.info["global"] = 1
    /\ th["t1"].info = th["t2"].info

\* C9: check_session goes into teardown and setup exactly when the caller
\* passed can_refresh=True and the timestamp of the handle is more than 1800
\* seconds before the current time; in every other call it leaves the handle
\* as it is and returns the handle it looked at.
C9_RefreshIffStale ==
    [][\A t \in Threads :
            (th[t].pc \in {"cs_check", "cs_release"} /\ th'[t].pc # th[t].pc) =>
                LET due == th[t].can_refresh /\ now - Handle(t).timestamp > 1800
                IN  /\ th[t].pc = "cs_check" => (th'[t].pc = "td_caches" <=> due)
                    /\ (th[t].pc = "cs_release" \/ ~due) =>
                            /\ handles' = handles
                            /\ th'[t].info = th[t].info
                            /\ th'[t].pc \in {"cs_release", th[t].after}]_vars

\* a call with can_refresh=True on a handle 1801 seconds old is about to refresh it
C9_Witness ==
    \E t \in Threads :
        /\ th[t].pc = "td_caches" /\ th[t].can_refresh
        /\ now - Handle(t).timestamp = 1801

\* the thread is inside execute with the db_lock of its handle
HoldsDbLock(t) == th[t].pc = "ex_run"

\* the thread's next step closes, opens or fills the connection of its handle
ChangesConnection(t) == th[t].pc \in {"td_close", "su_open", "su_fill"}

\* C20: the connection and the cursor of a handle are used under its db_lock
\* only, by execute and get_step_list and also by the close of teardown and
\* the open and fill of setup: no thread closes, opens or fills the connection
\* of a handle while another thread holds the handle's db_lock for its query.
C20_ConnectionUnderDbLock ==
    [][\A t, u \in Threads :
            (t # u /\ ChangesConnection(t) /\ th'[t].pc # th[t].pc)
                => ~(HoldsDbLock(u) /\ th[u].info = th[t].info)]_vars

\* the thread's next step takes its result out of a cache of its handle
ReadsCache(t) == th[t].pc \in {"gst_read", "gsl_read"}

\* the cache the thread's next step reads
CacheRead(t) ==
    IF th[t].pc = "gst_read" THEN Handle(t).step_tables ELSE Handle(t).step_list

\* C21: a cache a thread can see (one that is not None) already holds the
\* complete contents of the epoch: no read of _step_tables or of _step_list
\* is served from a structure that has been assigned and not filled yet.
C21_CachesPublishedWhole ==
    [][\A t \in Threads :
            (ReadsCache(t) /\ th'[t].pc # th[t].pc /\ CacheRead(t).state # "None")
                => CacheRead(t).state = "filled"]_vars

\* C22: within one epoch the same read gives the same result: two calls of
\* get_step_table made on the one handle of the server, with no time passed
\* since its load, have computed their results from the same lists and the
\* same cached sparse lists.
C22_RepeatedReadsEqual ==
    \A t, u \in Threads :
        (/\ now = 0 /\ Len(handles) = 1
         /\ th[t].pc = "done" /\ th[t].op = "get_step_table"
         /\ th[u].pc = "done" /\ th[u].op = "get_step_table")
            => th[t].seen = th[u].seen

\* the thread is in no call: it waits for a request, or its call has returned or raised
Outside(t) == th[t].pc \in {"idle", "done", "raised"}

\* C23: a load that fails inside check_session leaves no lock of check_session
\* held: when every thread is outside its call, GLOBAL_LOCK is free and so is
\* the lock of every session, so that the next call can go in and retry.
C23_NoLockLeftHeld ==
    (\A t \in Threads : Outside(t)) =>
        /\ ~GLOBAL_LOCK
        /\ \A s \in Sessions : session[s].lock # "held"

\* the thread's next step is the return of check_session with its handle
Returning(t) == th[t].pc = "cs_release"

\* C24: a handle whose connection has been closed is not used again: no step
\* of check_session returns it to a caller and no query or read of a caller
\* runs on it.
C24_ClosedNeverUsed ==
    [][\A t \in Threads :
            ((Returning(t) \/ Reading(t)) /\ th'[t].pc # th[t].pc)
                => Handle(t).conn = "open"]_vars

\* the thread is in check_session between GLOBAL_LOCK.acquire() and GLOBAL_LOCK.release()
InGlobalSection(t) == th[t].pc \in {"cs_ginfo", "cs_gnew", "cs_lock", "cs_mklock"}

\* the thread is in check_session between the acquire and the release of the
\* lock of session s
InSessionSection(t, s) ==
    /\ th[t].scope = s
    /\ th[t].pc \in {"cs_sinfo", "cs_snew", "cs_check", "cs_release",
                     "td_caches", "td_close", "su_open", "su_fill", "su_lists"}

\* check_session has returned to the thread, which is at its reads
AtReads(t) ==
    th[t].pc \in {"exec", "ex_run", "gst_allmap", "gst_check", "gst_publish", "gst_query",
                  "gst_read", "sw_info", "gsl_check", "gsl_publish", "gsl_query", "gsl_read"}

\* an exception has left check_session inside the section of GLOBAL_LOCK
GlobalLoadFailed == made.info["global"] > 0 /\ GLOBAL_INFO = 0

\* an exception has left check_session inside the section of the lock of session s
SessionLoadFailed(s) ==
    \/ made.info[s] > 0 /\ session[s].info = 0
    \/ session[s].info # 0 /\ handles[session[s].info].failed

\* C26: a session lock is held inside check_session only.  The step by which
\* check_session returns for a session leaves the lock of the session free;
\* when a thread is at the reads of a call for a session and the lock of the
\* session is held, it is another thread inside check_session that holds it
\* (or a failed load has left it held), not the reader; and when a thread
\* waits for a session lock and GLOBAL_LOCK is held, it is another thread
\* that holds GLOBAL_LOCK (or a failed load has left it held), not the waiter.
C26_SessionLockInsideOnly ==
    /\ [][\A t \in Threads :
            (th[t].pc = "cs_release" /\ th'[t].pc # th[t].pc /\ th[t].scope \in Sessions)
                => session'[th[t].scope].lock = "free"]_vars
    /\ [](\A t \in Threads :
            (AtReads(t) /\ th[t].scope \in Sessions /\ session[th[t].scope].lock = "held")
                => \/ \E u \in Threads \ {t} : InSessionSection(u, th[t].scope)
                   \/ SessionLoadFailed(th[t].scope))
    /\ [](\A t \in Threads :
            (th[t].pc = "cs_slock" /\ GLOBAL_LOCK)
                => \/ \E u \in Threads \ {t} : InGlobalSection(u)
                   \/ GlobalLoadFailed)

\* a thread runs its query for a session while another thread, inside
\* check_session for the same session, holds the lock of the session
C26_Witness ==
    \E t, u \in Threads :
        /\ t # u
        /\ th[t].pc = "exec" /\ th[t].scope \in Sessions
        /\ th[u].scope = th[t].scope /\ th[u].pc = "cs_check"
        /\ session[th[t].scope].lock = "held"

\* no refresh of the handle is under way and its last load succeeded: its
\* lists are those of its table
Settled(i) ==
    /\ ~\E t \in Threads : InRefresh(t) /\ th[t].info = i
    /\ ~handles[i].failed
    /\ handles[i].info = handles[i].table

\* C28: the caches of a handle are of one epoch: once a refresh of the handle
\* has completed, a step-table cache or a step-list cache that is filled was
\* computed from the store of the new load, whatever readers were building
\* the caches while the refresh ran.
C28_CachesOfCurrentEpoch ==
    \A i \in 1..Len(handles) :
        Settled(i) =>
            /\ handles[i].step_tables.state = "filled"
                    => handles[i].step_tables.epoch = handles[i].table
            /\ handles[i].step_list.state = "filled"
                    => handles[i].step_list.epoch = handles[i].table

(***************************************************************************)
(* Properties of the server under fair scheduling (SpecLive).              *)
(***************************************************************************)

\* a load has raised: a construction, or the setup of a refresh
SomeLoadFailed ==
    \/ GlobalLoadFailed
    \/ \E s \in Sessions : SessionLoadFailed(s)
    \/ \E i \in 1..Len(handles) : handles[i].failed

\* C29: when no load fails the locks of check_session and of the store do
\* not deadlock: under fair scheduling every call a thread has entered
\* returns or raises in the end, unless a load has failed.
C29_EveryCallReturns ==
    \A t \in Threads : (~Outside(t)) ~> (Outside(t) \/ SomeLoadFailed)

(***************************************************************************)
(* Properties of the merge (SpecMerge).                                    *)
(***************************************************************************)

\* the loops have ended: return steptable
Merged == ret.op = "merge" /\ ret.i > Len(ret.errors)

\* the cells made so far: those of the rows appended and those of the row being made
CellsMade ==
    {<<i, j>> : i \in 1..Len(ret.steptable), j \in 1..Len(ret.sites)}
        \cup {<<ret.i, j>> : j \in 1..Len(ret.steprow)}

CellAt(i, j) == IF i <= Len(ret.steptable) THEN ret.steptable[i][j] ELSE ret.steprow[j]

====
